---- MODULE Spec2Model ----
(***************************************************************************)
(* anilist-amq-tool.py: the rate-limited query client (RateLimiter, API),  *)
(* the seeded sampling engine (generate_sample, Commands.sample_set), the  *)
(* catalog loader and the filter predicate (Commands._load_data,           *)
(* Commands._create_filter) and the store of media sets.                   *)
(*                                                                         *)
(* Time is counted in ticks of 0.1 s, so the 0.1 s safety margin of        *)
(* RateLimiter.limit is one tick and a header value of x seconds is        *)
(* Sec(x) = 10 * x ticks.  An optional value (Python's None) is the empty  *)
(* tuple, a known value v is the one-element tuple <<v>>.                  *)
(***************************************************************************)
EXTENDS Integers, Sequences, FiniteSets, TLC

VARIABLES
    rl,         \* API.ratelimiter: the RateLimiter's fields
    now,        \* time.time(), in ticks
    pc,         \* where retry_request stands: idle, limit, post, returned, raised
    i,          \* the loop index of retry_request
    count,      \* the attempt budget of the running call
    status,     \* the local `status` of retry_request (None until assigned)
    response,   \* the local `response` of retry_request (None until assigned)
    raised,     \* the exception that ended the process, if any
    ncalls,     \* retry_request calls started so far
    nsent,      \* history: requests posted by the running call
    transient,  \* history: every attempt of the running call got a response, none 200/429
    posted,     \* history: how the last requests.post of the running call ended, since limit()
    lastResp,   \* history: the last response received and its time of receipt
    lastLimit,  \* history: the RateLimiter.limit call before the pending post: entry state, what it did
    grants,     \* history: the time of every timestamp window_limit recorded
    rng,        \* the state of the module-level generator of `random`
    media_sets, \* Commands._media_sets: name -> list of media
    died,       \* the fatal() message that ended the process, "" while it runs
    log,        \* history: the generate_sample calls made, arguments and result
    drew,       \* history: _tmp_name has drawn from the generator
    file,       \* the persisted catalog snapshot: None if absent, else <<list of media>>
    no_data,    \* the no_data argument of Commands.__init__
    started,    \* Commands.__init__ has run
    media,      \* Commands._media: None, or <<id -> media with its percentile>>
    max_media_id,   \* Commands._max_media_id
    max_popularity, \* Commands._max_popularity
    probe,      \* history: the last call of a filter_ predicate: options, entry, outcome
    todo,       \* the sub-commands the running command has still to call
    nops,       \* commands started so far
    lastOp,     \* history: the last command step and the names it loaded and saved
    created,    \* history: name -> the list each set was first saved with
    remote,     \* the ids of the media on the authenticated user's list
    sent,       \* history: the mutations the running command has sent so far
    running     \* history: the command under way or last run, and its argument

clientVars == <<rl, now, pc, i, count, status, response, raised, ncalls,
                nsent, transient, posted, lastResp, lastLimit, grants>>

sampleVars == <<rng, media_sets, died, log, drew>>

catalogVars == <<file, no_data, started, media, max_media_id, max_popularity, probe>>

storeVars == <<todo, nops, lastOp, created, remote, sent, running>>

vars == <<clientVars, sampleVars, catalogVars, storeVars>>

----------------------------------------------------------------------------
(* Bounds of the model *)

MaxCount == 2       \* largest attempt budget tried
MaxCalls == 2       \* retry_request calls per run
MaxTime == 40       \* no attempt starts after this tick
IdSpace == 12       \* length of the dense index space (1000000 at line 970)
MaxSize == 2        \* largest sample size asked for
MaxOffset == 1      \* largest offset asked for
MaxSnapshot == 11   \* largest number of entries in the persisted snapshot
MaxOps == 2         \* commands per run of the store
MaxGrants == 4      \* timestamps recorded per run of the limiter

\* The least number of entries _load_data can load (index [-10], line 837).
MinLoadable == 10

None == <<>>
Some(v) == <<v>>
Sec(x) == 10 * x

(* What the server may answer *)
Statuses == {200, 429, 500}
RetryAfterVals == {None, Some(2)}
ResetVals == {None, Some(0), Some(3)}
RemainingVals == {None, Some(0), Some(1)}
LimitVals == {Some(2)}
Headers == [reset : ResetVals, retry_after : RetryAfterVals,
            remaining : RemainingVals, limit : LimitVals]
\* A body is its text; json says whether response.json() can parse it, and a
\* parsed body has an 'errors' key or not, holding an array of messages.
Bodies == {[json |-> FALSE, has_errors |-> FALSE, errors |-> <<>>],
           [json |-> TRUE, has_errors |-> FALSE, errors |-> <<>>],
           [json |-> TRUE, has_errors |-> TRUE, errors |-> <<>>],
           [json |-> TRUE, has_errors |-> TRUE, errors |-> <<"m1", "m2">>]}
Latencies == {1}
Oversleeps == {0, 1}

----------------------------------------------------------------------------
(* RateLimiter *)

RateLimiter__init__(window_seconds, count_, cooldown_) ==
    [timestamps |-> <<>>,
     window |-> window_seconds,
     count |-> count_,
     cooldown |-> cooldown_,
     x_ratelimit_reset |-> None,
     x_ratelimit_remaining |-> None,
     x_ratelimit_limit |-> None,
     x_ratelimit_retry_after |-> None]

\* RateLimiter() as API.__init__ builds it: every argument at its default.
API__init__ == RateLimiter__init__(60, None, None)

\* update_timestamps that forgets every timestamp, whatever its age.
update_timestamps_forgets(r, t) == [r EXCEPT !.timestamps = <<>>]

update_timestamps(r, t) ==
    [r EXCEPT !.timestamps = SelectSeq(@, LAMBDA x : x > t - Sec(r.window))]

x_update(r, h) ==
    [r EXCEPT
        !.x_ratelimit_reset = IF h.reset # None THEN h.reset ELSE @,
        !.x_ratelimit_retry_after = IF h.retry_after # None THEN h.retry_after ELSE @,
        !.x_ratelimit_remaining = IF h.remaining # None THEN h.remaining ELSE @,
        !.x_ratelimit_limit = IF h.limit # None THEN h.limit ELSE @]

\* reset that leaves the remaining quota as it was.
reset_keeps_remaining(r) ==
    [r EXCEPT
        !.x_ratelimit_limit = None,
        !.x_ratelimit_reset = None,
        !.x_ratelimit_retry_after = None]

\* reset that leaves the reset time as it was.
reset_keeps_reset_time(r) ==
    [r EXCEPT
        !.x_ratelimit_limit = None,
        !.x_ratelimit_remaining = None,
        !.x_ratelimit_retry_after = None]

reset(r) ==
    [r EXCEPT
        !.x_ratelimit_limit = None,
        !.x_ratelimit_remaining = None,
        !.x_ratelimit_reset = None,
        !.x_ratelimit_retry_after = None]

\* time.sleep(secs) entered at tick t: TypeError for None, ValueError for a
\* negative length, else it returns no earlier than t + secs.
sleep(secs, t, over) ==
    IF secs = None THEN [exc |-> "TypeError", now |-> t, slept |-> 0]
    ELSE IF secs[1] < 0 THEN [exc |-> "ValueError", now |-> t, slept |-> 0]
    ELSE [exc |-> "none", now |-> t + secs[1] + over, slept |-> secs[1] + over]

\* The polling loop of window_limit, one 0.1 s sleep per round.
RECURSIVE window_wait(_, _, _)
window_wait(r, t, fuel) ==
    IF fuel > 0 /\ Len(r.timestamps) >= r.count[1]
    THEN window_wait(update_timestamps(r, t), t + 1, fuel - 1)
    ELSE [rl |-> r, now |-> t]

window_limit(r, t) ==
    LET r0 == update_timestamps(r, t) IN
    IF r0.count = None THEN [rl |-> r0, now |-> t]
    ELSE LET w == window_wait(r0, t, Sec(r0.window) + 2) IN
         [rl |-> [w.rl EXCEPT !.timestamps = Append(@, w.now)], now |-> w.now]

\* The timestamp a window_limit call entered at tick t records, if any.
granted(r, t) ==
    IF r.count = None THEN <<>> ELSE <<window_limit(r, t).now>>

\* Line 152: the argument of the cooldown sleep, self.cooldown as it is.
cooldown_sleep(r) ==
    IF r.cooldown = None THEN None ELSE Some(Sec(r.cooldown[1]))

\* limit_remaining with the quota test off by one (> 1 for >= 1).
limit_remaining_off_by_one(r, t, over, called, slept) ==
    IF r.x_ratelimit_remaining = None
    THEN [rl |-> r, now |-> t, exc |-> "none", called |-> called, slept |-> slept]
    ELSE IF r.x_ratelimit_remaining[1] > 1
    THEN [rl |-> r, now |-> t, exc |-> "none", called |-> called, slept |-> slept]
    ELSE LET s == sleep(cooldown_sleep(r), t, over) IN
         IF s.exc # "none"
         THEN [rl |-> r, now |-> t, exc |-> s.exc, called |-> TRUE, slept |-> slept]
         ELSE [rl |-> reset(r), now |-> s.now, exc |-> "none",
               called |-> TRUE, slept |-> slept + s.slept]

\* Lines 143-153: the remaining-quota check that ends limit().
limit_remaining(r, t, over, called, slept) ==
    IF r.x_ratelimit_remaining = None
    THEN [rl |-> r, now |-> t, exc |-> "none", called |-> called, slept |-> slept]
    ELSE IF r.x_ratelimit_remaining[1] >= 1
    THEN [rl |-> r, now |-> t, exc |-> "none", called |-> called, slept |-> slept]
    ELSE LET s == sleep(cooldown_sleep(r), t, over) IN
         IF s.exc # "none"
         THEN [rl |-> r, now |-> t, exc |-> s.exc, called |-> TRUE, slept |-> slept]
         ELSE [rl |-> reset(r), now |-> s.now, exc |-> "none",
               called |-> TRUE, slept |-> slept + s.slept]

\* retry_after_sleep with the margin subtracted instead of added.
retry_after_sleep_short(r) == Some(Sec(r.x_ratelimit_retry_after[1]) - 1)

\* Line 131: the length of the Retry-After sleep, the value plus 0.1 s.
retry_after_sleep(r) == Some(Sec(r.x_ratelimit_retry_after[1]) + 1)

\* reset_sleep with the margin subtracted instead of added.
reset_sleep_short(r, t) == Some(Sec(r.x_ratelimit_reset[1]) - t - 1)

\* Line 141: the length of the sleep up to the reset time, plus 0.1 s.
reset_sleep(r, t) == Some(Sec(r.x_ratelimit_reset[1]) - t + 1)

\* RateLimiter.limit entered at tick t.  called: time.sleep was called by the
\* server-directed layer; slept: the ticks it blocked for.
limit(r, t, over) ==
    LET w == window_limit(r, t) IN
    IF w.rl.x_ratelimit_retry_after # None
    THEN LET s == sleep(retry_after_sleep(w.rl), w.now, over) IN
         IF s.exc # "none"
         THEN [rl |-> w.rl, now |-> w.now, exc |-> s.exc, called |-> TRUE, slept |-> 0]
         ELSE limit_remaining(reset(w.rl), s.now, over, TRUE, s.slept)
    ELSE IF w.rl.x_ratelimit_reset # None
    THEN LET s == sleep(reset_sleep(w.rl, w.now), w.now, over) IN
         IF s.exc # "none"
         THEN [rl |-> w.rl, now |-> w.now, exc |-> s.exc, called |-> TRUE, slept |-> 0]
         ELSE limit_remaining(reset(w.rl), s.now, over, TRUE, s.slept)
    ELSE limit_remaining(w.rl, w.now, over, FALSE, 0)

----------------------------------------------------------------------------
(* The module-level generator of `random`.  The Mersenne Twister is not part
   of the program; what the program relies on is kept: seed(n) puts the
   generator in a state fixed by n, every draw is a function of the state and
   advances it.  The stand-in is a small congruential generator. *)

RngStates == 0..4

\* random.seed(n)
seed_state(n) == (2 * n + 1) % 5

\* One draw: the states 0..4 form one cycle.
rng_next(s) == (s + 3) % 5

RECURSIVE rng_skip(_, _)
rng_skip(s, n) == IF n = 0 THEN s ELSE rng_skip(rng_next(s), n - 1)

\* random.sample(population, k=len(population)), CPython's pool algorithm:
\* result[i] = pool[j] for j = randbelow(n - i), then pool[j] = pool[n - i - 1].
RECURSIVE sample_pool(_, _, _, _)
sample_pool(pool, result, s, left) ==
    IF left = 0 THEN [result |-> result, rng |-> s]
    ELSE LET s1 == rng_next(s)
             j == (s1 % left) + 1
         IN sample_pool([pool EXCEPT ![j] = pool[left]], Append(result, pool[j]),
                        s1, left - 1)

random_sample(population, s) == sample_pool(population, <<>>, s, Len(population))

----------------------------------------------------------------------------
(* Media, filters and generate_sample *)

\* The table season_order (lines 13-18).
season_order == ("WINTER" :> 0) @@ ("SPRING" :> 1) @@ ("SUMMER" :> 2) @@ ("FALL" :> 3)

Seasons == DOMAIN season_order

\* str.lower on the genre and tag names in use.
lower(s) ==
    CASE s \in {"Action", "ACTION", "action"} -> "action"
      [] s \in {"Drama", "DRAMA", "drama"} -> "drama"
      [] s \in {"Mecha", "MECHA", "mecha"} -> "mecha"
      [] OTHER -> s

\* A media entry as the AniList query returns it.  seasonYear is None for a
\* JSON null; season is None where the key is missing, <<"null">> for a JSON
\* null, else <<name>>; popularity_percent is None until _load_data sets it.
Media(id) ==
    [id |-> id,
     popularity |-> 10 * (((7 * id) % 11) \div 2),
     seasonYear |-> IF id % 4 = 0 THEN None ELSE Some(2000 + (id % 3)),
     season |-> CASE id % 6 = 0 -> None
                  [] id % 6 = 1 -> Some("WINTER")
                  [] id % 6 = 2 -> Some("SPRING")
                  [] id % 6 = 3 -> Some("SUMMER")
                  [] id % 6 = 4 -> Some("FALL")
                  [] OTHER -> Some("null"),
     genres |-> IF id % 2 = 0 THEN <<"Action">> ELSE <<"Drama", "Mecha">>,
     tags |-> IF id % 3 = 0 THEN <<>> ELSE <<"Mecha">>,
     popularity_percent |-> None]

\* A persisted snapshot of n entries, ids 1..n.
Snapshot(n) == [k \in 1..n |-> Media(k)]

\* sorted(list, key=...): Python's sort is stable, so the place of position p
\* is the number of positions with a smaller key, or an equal key and an
\* earlier position.
rank(keys, p) ==
    Cardinality({q \in DOMAIN keys : \/ keys[q] < keys[p]
                                     \/ keys[q] = keys[p] /\ q < p})

sorted(keys) ==
    [r \in 1..Len(keys) |-> CHOOSE p \in 1..Len(keys) : rank(keys, p) = r - 1]

\* The last position of list f holding an entry with this id.
last_with_id(f, id) == CHOOSE p \in 1..Len(f) :
    f[p].id = id /\ \A q \in (p + 1)..Len(f) : f[q].id # id

\* Commands._load_data on the list f read from the file.  A percentile
\* 100 * i / n is kept as the pair <<100 * i, n>>.  exc is the exception of
\* lines 830-837, raised before _save_media is reached.
load_data(f) ==
    LET n == Len(f)
        keys == [p \in 1..n |-> f[p].popularity]
        annotated == [p \in 1..n |->
            [f[p] EXCEPT !.popularity_percent = Some(<<100 * rank(keys, p), n>>)]]
        by_id == sorted([p \in 1..n |-> f[p].id])
        popularity_sorted == sorted(keys)
    IN [media |-> [id \in {f[p].id : p \in 1..n} |-> annotated[last_with_id(f, id)]],
        all |-> annotated,
        max_media_id |-> IF n = 0 THEN None ELSE Some(annotated[by_id[n]].id),
        max_popularity |-> IF n < 10 THEN None
                           ELSE Some(annotated[popularity_sorted[n - 9]].popularity),
        exc |-> IF n < 10 THEN "IndexError" ELSE ""]

\* The options of _create_filter, each None when absent.
NoFilterOptions ==
    [min_year |-> None, min_season |-> None, max_year |-> None,
     max_season |-> None, min_popularity |-> None, max_popularity |-> None,
     min_popularity_percent |-> None, max_popularity_percent |-> None,
     genres |-> None, tags |-> None]

\* The sub-predicates of _create_filter on an entry m that is not a hole.
\* The outcome is "True" or "False" by the truth value Python gives the
\* result, or the name of the exception raised.
truth(b) == IF b THEN "True" ELSE "False"

f_min_year(m, min_year) ==
    IF m.seasonYear = None THEN "TypeError" ELSE truth(m.seasonYear[1] >= min_year)

f_max_year(m, max_year) ==
    IF m.seasonYear = None THEN "TypeError" ELSE truth(m.seasonYear[1] <= max_year)

\* Lines 868-872: the and-chain stops at the first falsy operand, and the
\* order m_season_order of WINTER is 0.
f_min_season(m, min_season) ==
    IF m.season = None THEN "False"
    ELSE IF m.season[1] \notin DOMAIN season_order THEN "KeyError"
    ELSE LET m_season_order == season_order[m.season[1]]
         IN IF m_season_order = 0 THEN "False"
            ELSE truth(m_season_order >= season_order[min_season])

\* Lines 877-881.
f_max_season(m, max_season) ==
    IF m.season = None THEN "False"
    ELSE IF m.season[1] \notin DOMAIN season_order THEN "KeyError"
    ELSE LET m_season_order == season_order[m.season[1]]
         IN IF m_season_order = 0 THEN "False"
            ELSE truth(m_season_order >= season_order[max_season])

f_min_popularity(m, min_popularity) == truth(m.popularity >= min_popularity)

\* Lines 888-889.
f_max_popularity(m, max_popularity_) == truth(m.popularity >= max_popularity_)

\* self._media[m["id"]]["popularity_percent"], with cat the value of self._media.
popularity_percent(cat, m) ==
    IF cat = None THEN [exc |-> "TypeError", pp |-> None]
    ELSE IF m.id \notin DOMAIN cat[1] THEN [exc |-> "KeyError", pp |-> None]
    ELSE [exc |-> "", pp |-> cat[1][m.id].popularity_percent]

f_min_popularity_percent(cat, m, x) ==
    LET r == popularity_percent(cat, m)
    IN IF r.exc # "" THEN r.exc ELSE truth(r.pp[1][1] >= x * r.pp[1][2])

f_max_popularity_percent(cat, m, x) ==
    LET r == popularity_percent(cat, m)
    IN IF r.exc # "" THEN r.exc ELSE truth(r.pp[1][1] <= x * r.pp[1][2])

f_genres(m, genres) ==
    truth(\E k \in 1..Len(m.genres) :
            \E g \in 1..Len(genres) : lower(m.genres[k]) = lower(genres[g]))

f_tags(m, tags) ==
    truth(\E k \in 1..Len(m.tags) :
            \E t \in 1..Len(tags) : lower(m.tags[k]) = lower(tags[t]))

\* The list `filters`, in the order _create_filter appends to it.
OptionOrder == <<"min_year", "max_year", "min_season", "max_season",
                 "min_popularity", "max_popularity", "min_popularity_percent",
                 "max_popularity_percent", "genres", "tags">>

filters(opts) == SelectSeq(OptionOrder, LAMBDA o : opts[o] # None)

apply_filter(cat, o, v, m) ==
    CASE o = "min_year" -> f_min_year(m, v)
      [] o = "max_year" -> f_max_year(m, v)
      [] o = "min_season" -> f_min_season(m, v)
      [] o = "max_season" -> f_max_season(m, v)
      [] o = "min_popularity" -> f_min_popularity(m, v)
      [] o = "max_popularity" -> f_max_popularity(m, v)
      [] o = "min_popularity_percent" -> f_min_popularity_percent(cat, m, v)
      [] o = "max_popularity_percent" -> f_max_popularity_percent(cat, m, v)
      [] o = "genres" -> f_genres(m, v)
      [] OTHER -> f_tags(m, v)

Raised(out) == out \notin {"True", "False"}

\* any([f(m) for f in filters]) in place of all(...).
all_as_any(outs) ==
    IF \E k \in 1..Len(outs) : Raised(outs[k])
    THEN outs[CHOOSE k \in 1..Len(outs) :
                  Raised(outs[k]) /\ \A j \in 1..(k - 1) : ~Raised(outs[j])]
    ELSE truth(\E k \in 1..Len(outs) : outs[k] = "True")

\* all([f(m) for f in filters]): the list is built first, every filter is
\* called in order and the first exception ends the call.
all(outs) ==
    IF \E k \in 1..Len(outs) : Raised(outs[k])
    THEN outs[CHOOSE k \in 1..Len(outs) :
                  Raised(outs[k]) /\ \A j \in 1..(k - 1) : ~Raised(outs[j])]
    ELSE truth(\A k \in 1..Len(outs) : outs[k] = "True")

\* The predicate filter_ returned by _create_filter(opts), called on the
\* entry v of the dense list (None for a hole) with self._media = cat.
filter_(cat, opts, v) ==
    IF v = None THEN "False"
    ELSE LET fs == filters(opts)
         IN all([k \in 1..Len(fs) |-> apply_filter(cat, fs[k], opts[fs[k]][1], v[1])])

\* The for loop of generate_sample, from position k of shuffled; the filter
\* is the closure filter_(cat, opts, .).  exc names the exception a filter
\* call raised, which ends the loop.
RECURSIVE sample_loop(_, _, _, _, _, _, _, _)
\* The loop with the predicate left out: every entry that is not a hole counts.
RECURSIVE sample_loop_unfiltered(_, _, _, _, _, _, _, _)
sample_loop_unfiltered(shuffled, k, cat, opts, size, offset, skipped, sample) ==
    IF k > Len(shuffled) THEN [sample |-> sample, exc |-> ""]
    ELSE IF shuffled[k] # None
    THEN IF skipped >= offset
         THEN IF Len(sample) + 1 >= size
              THEN [sample |-> Append(sample, shuffled[k]), exc |-> ""]
              ELSE sample_loop_unfiltered(shuffled, k + 1, cat, opts, size, offset,
                                          skipped, Append(sample, shuffled[k]))
         ELSE sample_loop_unfiltered(shuffled, k + 1, cat, opts, size, offset,
                                     skipped + 1, sample)
    ELSE sample_loop_unfiltered(shuffled, k + 1, cat, opts, size, offset, skipped,
                                sample)

sample_loop(shuffled, k, cat, opts, size, offset, skipped, sample) ==
    IF k > Len(shuffled) THEN [sample |-> sample, exc |-> ""]
    ELSE LET out == filter_(cat, opts, shuffled[k]) IN
         IF Raised(out) THEN [sample |-> sample, exc |-> out]
         ELSE IF out = "True"
         THEN IF skipped >= offset
              THEN IF Len(sample) + 1 >= size
                   THEN [sample |-> Append(sample, shuffled[k]), exc |-> ""]
                   ELSE sample_loop(shuffled, k + 1, cat, opts, size, offset, skipped,
                                    Append(sample, shuffled[k]))
              ELSE sample_loop(shuffled, k + 1, cat, opts, size, offset, skipped + 1,
                               sample)
         ELSE sample_loop(shuffled, k + 1, cat, opts, size, offset, skipped, sample)

\* Lines 49-59 on the shuffled list sh.result, the generator left in sh.rng.
sample_from(sh, cat, opts, size, offset) ==
    sample_loop(sh.result, 1, cat, opts, size, offset, 0, <<>>) @@ [rng |-> sh.rng]

\* generate_sample that never seeds the generator.
generate_sample_unseeded(data, cat, opts, size, seed, offset, s) ==
    sample_from(random_sample(data, s), cat, opts, size, offset)

\* generate_sample entered with the generator in state s.
generate_sample(data, cat, opts, size, seed, offset, s) ==
    sample_from(random_sample(data, IF seed # None THEN seed_state(seed[1]) ELSE s),
                cat, opts, size, offset)

----------------------------------------------------------------------------
(* Commands: the store of media sets and sample_set *)

SetNames == {"ALL", "T1"}
Seeds == {None, Some(1)}
FilterOptions == {NoFilterOptions, [NoFilterOptions EXCEPT !.min_popularity = Some(30)]}

\* Lines 964-971: the source as a dense list indexed by id, None where no
\* entry of the source has that id (the last entry wins for an id met twice).
RECURSIVE entry_for(_, _, _)
entry_for(source, id, k) ==
    IF k = 0 THEN None
    ELSE IF source[k].id = id THEN Some(source[k])
    ELSE entry_for(source, id, k - 1)

\* The source itself as the list to shuffle, without the holes.
dense_without_holes(source) == [k \in 1..Len(source) |-> Some(source[k])]

dense(source) == [k \in 1..IdSpace |-> entry_for(source, k - 1, Len(source))]

\* The media on the authenticated user's list when the program starts.
InitialList == {2, 3}

unwrap(sample) == [k \in 1..Len(sample) |-> sample[k][1]]

\* The store before any set is saved (self._media_sets = {}).
NoSets == [n \in {} |-> <<>>]

\* _save_media that binds the name again when it is already bound.
save_media_overwrites(sets, name, list) ==
    [sets |-> [n \in DOMAIN sets \cup {name} |-> IF n = name THEN list ELSE sets[n]],
     exc |-> ""]

\* Commands._save_media on the store `sets`.
save_media(sets, name, list) ==
    IF name \in DOMAIN sets
    THEN [sets |-> sets, exc |-> "Media set already exists:"]
    ELSE [sets |-> sets @@ (name :> list), exc |-> ""]

\* Commands._load_media on the store `sets`.
load_media(sets, name) ==
    IF name \notin DOMAIN sets
    THEN [list |-> <<>>, exc |-> "No media set with name"]
    ELSE [list |-> sets[name], exc |-> ""]

\* The first list each name was saved with.
remember(hist, name, list) ==
    IF name \in DOMAIN hist THEN hist ELSE hist @@ (name :> list)

\* A command step and the names it passed to _load_media and _save_media.
Op(cmd, loaded, saved) == [cmd |-> cmd, load |-> loaded, save |-> saved]

\* Commands.__init__: load the snapshot if the file exists, else stop unless
\* no_data was given.
Commands__init__ ==
    /\ ~started
    /\ started' = TRUE
    /\ IF file # None
       THEN \E d \in {load_data(file[1])} :
               /\ media' = Some(d.media)
               /\ max_media_id' = d.max_media_id
               /\ max_popularity' = d.max_popularity
               /\ died' = d.exc
               /\ media_sets' = IF d.exc = "" THEN save_media(media_sets, "ALL", d.all).sets
                                ELSE media_sets
               /\ created' = IF d.exc = "" THEN remember(created, "ALL", d.all)
                             ELSE created
               /\ lastOp' = Some(Op("__init__", None,
                                    IF d.exc = "" THEN Some("ALL") ELSE None))
       ELSE /\ died' = IF no_data THEN "" ELSE "Anime data not found."
            /\ lastOp' = Some(Op("__init__", None, None))
            /\ UNCHANGED <<media, max_media_id, max_popularity, media_sets, created>>
    /\ UNCHANGED <<rng, log, drew, file, no_data, probe, todo, nops>>
    /\ UNCHANGED <<remote, sent, running>>
    /\ UNCHANGED clientVars

\* The state Commands.__init__ leaves when the file holds the snapshot f.
Constructed(f) ==
    LET d == load_data(f)
    IN /\ file = Some(f)
       /\ no_data = FALSE
       /\ started = TRUE
       /\ media = Some(d.media)
       /\ max_media_id = d.max_media_id
       /\ max_popularity = d.max_popularity
       /\ media_sets = ("ALL" :> d.all)
       /\ created = ("ALL" :> d.all)
       /\ died = ""
       /\ probe = None
       /\ todo = <<>>
       /\ nops = 0
       /\ lastOp = None
       /\ remote = InitialList
       /\ sent = <<>>
       /\ running = None

\* The state Commands.__init__ leaves with no data file and no_data given.
ConstructedNoData ==
    /\ file = None
    /\ no_data = TRUE
    /\ started = TRUE
    /\ media = None
    /\ max_media_id = None
    /\ max_popularity = None
    /\ media_sets = NoSets
    /\ created = NoSets
    /\ died = ""
    /\ probe = None
    /\ todo = <<>>
    /\ nops = 0
    /\ lastOp = None
    /\ remote = InitialList
    /\ sent = <<>>
    /\ running = None

SampleInit ==
    /\ rng \in RngStates
    /\ Constructed(Snapshot(MinLoadable))
    /\ log = <<>>
    /\ drew = FALSE

\* Commands.sample_set: _load_media, generate_sample on the dense list, then
\* _save_media.
sample_set(source_media_set, target_media_set, size, offset, seed, opts) ==
    /\ started
    /\ died = ""
    /\ todo = <<>>
    /\ \E src \in {load_media(media_sets, source_media_set)} :
       IF src.exc # ""
       THEN /\ died' = src.exc
            /\ lastOp' = Some(Op("sample_set", Some(source_media_set), None))
            /\ UNCHANGED <<rng, media_sets, log, created>>
       ELSE \E data \in {dense(src.list)} :
            \E g \in {generate_sample(data, media, opts, size, seed, offset, rng)} :
               /\ rng' = g.rng
               /\ log' = Append(log, [source |-> source_media_set,
                                      data |-> data, opts |-> opts, size |-> size,
                                      seed |-> seed, offset |-> offset,
                                      drew |-> drew, exc |-> g.exc,
                                      result |-> g.sample])
               /\ IF g.exc # ""
                  THEN /\ died' = g.exc
                       /\ lastOp' = Some(Op("sample_set", Some(source_media_set), None))
                       /\ UNCHANGED <<media_sets, created>>
                  ELSE \E s \in {save_media(media_sets, target_media_set,
                                            unwrap(g.sample))} :
                       /\ died' = s.exc
                       /\ media_sets' = s.sets
                       /\ created' = IF s.exc = ""
                                     THEN remember(created, target_media_set,
                                                   unwrap(g.sample))
                                     ELSE created
                       /\ lastOp' = Some(Op("sample_set", Some(source_media_set),
                                            Some(target_media_set)))
    /\ UNCHANGED <<drew, todo, remote>>
    /\ UNCHANGED <<clientVars, catalogVars>>

SampleSet ==
    /\ UNCHANGED <<nops, sent, running>>
    /\ \E src \in SetNames, tgt \in SetNames, size \in 0..MaxSize,
          offset \in 0..MaxOffset, seed \in Seeds, opts \in FilterOptions :
          sample_set(src, tgt, size, offset, seed, opts)

\* Commands._tmp_name: random.choices(..., k=16) draws 16 times.
TmpName ==
    /\ started
    /\ died = ""
    /\ rng' = rng_skip(rng, 16)
    /\ drew' = TRUE
    /\ UNCHANGED <<media_sets, died, log>>
    /\ UNCHANGED <<clientVars, catalogVars, storeVars>>

SampleNext == SampleSet \/ TmpName

----------------------------------------------------------------------------
(* The catalog loader and the filter predicate on their own *)

\* The snapshot file: absent, or a list of 0..MaxSnapshot entries.
Files == {None} \cup {Some(Snapshot(n)) : n \in 0..MaxSnapshot}

\* The values tried for each option of _create_filter.
OptionValues ==
    [min_year |-> {2000, 2001, 2002}, max_year |-> {2000, 2001, 2002},
     min_season |-> Seasons, max_season |-> Seasons,
     min_popularity |-> {0, 20, 30, 50}, max_popularity |-> {0, 20, 30, 50},
     min_popularity_percent |-> {0, 20, 50, 100},
     max_popularity_percent |-> {0, 20, 50, 100},
     genres |-> {<<"ACTION">>, <<"drama", "Comedy">>},
     tags |-> {<<"MECHA">>}]

\* One option present.
Only(o, v) == [NoFilterOptions EXCEPT ![o] = Some(v)]

Singles == UNION {{Only(o, v) : v \in OptionValues[o]} : o \in DOMAIN OptionValues}

\* Every combination of options present, one value for each.
Combinations ==
    [min_year : {None, Some(2001)}, min_season : {None, Some("SPRING")},
     max_year : {None, Some(2001)}, max_season : {None, Some("SUMMER")},
     min_popularity : {None, Some(20)}, max_popularity : {None, Some(30)},
     min_popularity_percent : {None, Some(20)},
     max_popularity_percent : {None, Some(50)},
     genres : {None, Some(<<"ACTION">>)}, tags : {None, Some(<<"MECHA">>)}]

\* The entries a predicate is called on: a hole, and media with ids in and
\* beyond the snapshot.
Entries == {None} \cup {Some(Media(k)) : k \in 1..(MaxSnapshot + 1)}

CatalogInit ==
    /\ rng = 0
    /\ media_sets = NoSets
    /\ died = ""
    /\ log = <<>>
    /\ drew = FALSE
    /\ file \in Files
    /\ no_data \in BOOLEAN
    /\ started = FALSE
    /\ media = None
    /\ max_media_id = None
    /\ max_popularity = None
    /\ probe = None
    /\ todo = <<>>
    /\ nops = 0
    /\ lastOp = None
    /\ remote = InitialList
    /\ sent = <<>>
    /\ running = None
    /\ created = NoSets

\* One call filter_(v) of the predicate _create_filter(opts) returns.
CallFilter ==
    /\ started
    /\ died = ""
    /\ probe = None
    /\ \E opts \in Singles \cup Combinations, v \in Entries :
           probe' = Some([opts |-> opts, m |-> v, out |-> filter_(media, opts, v)])
    /\ UNCHANGED <<file, no_data, started, media, max_media_id, max_popularity>>
    /\ UNCHANGED <<clientVars, sampleVars, storeVars>>

CatalogNext == Commands__init__ \/ CallFilter

----------------------------------------------------------------------------
(* The commands on the store of media sets.  A command that calls other
   commands (delete_list, replace_list) runs its first sub-command at once
   and leaves the others in todo; no other command starts until todo is
   empty.  What the server answers is chosen freely: a query either fails
   (retry_request raises) or returns some list of media. *)

StoreNames == {"ALL", "T1", "T2"}

\* The 16-character names _tmp_name can return, one for each generator state.
TmpNames == <<"tmp0", "tmp1", "tmp2", "tmp3", "tmp4">>

\* Commands._tmp_name from generator state s.
tmp_name(s) ==
    [name |-> TmpNames[rng_skip(s, 16) + 1], rng |-> rng_skip(s, 16)]

\* An id no entry of the loaded snapshot has.
ForeignId == MinLoadable + 1

\* The media ids on the lists of other users, and the explicit id lists given
\* to create_media_set; one holds an id beyond range(0, 1000000).
OtherLists == {<<>>, <<2, IdSpace>>, <<3, ForeignId>>}

\* One media object as fetch_media returns it: the fields of the catalog and
\* mediaListEntry, null unless the media is on the authenticated user's list.
fetched_media(id, listed) ==
    [id |-> id,
     popularity |-> Media(id).popularity,
     seasonYear |-> Media(id).seasonYear,
     season |-> Media(id).season,
     genres |-> Media(id).genres,
     tags |-> Media(id).tags,
     popularity_percent |-> None,
     mediaListEntry |-> IF id \in listed THEN Some(id) ELSE None]

\* Commands.fetch_media(ids) while the user's list holds the media of listed.
fetch_media(ids, listed) == [k \in 1..Len(ids) |-> fetched_media(ids[k], listed)]

\* The ids of S in increasing order: the mediaList pages of the user's list.
RECURSIVE ascending(_)
ascending(S) ==
    IF S = {} THEN <<>>
    ELSE LET m == CHOOSE x \in S : \A y \in S : x <= y IN
         <<m>> \o ascending(S \ {m})

\* The filter options tried on the store.
StoreOptions == {NoFilterOptions, Only("min_popularity_percent", 20)}

\* A command may start: the process runs and no command is under way.
Idle == started /\ died = "" /\ todo = <<>> /\ nops < MaxOps

\* The named sub-command is the next one of the running command.
Next_(cmd) == started /\ died = "" /\ todo # <<>> /\ Head(todo).cmd = cmd

\* The command cmd starts, with the set name arg where the model tracks it.
Starts(cmd, arg) ==
    /\ Idle
    /\ nops' = nops + 1
    /\ running' = Some([cmd |-> cmd, name |-> arg])

\* A mutation the program sends: its kind and the ids it names.
Mutation(kind, ids) == [kind |-> kind, ids |-> ids]

\* Commands.fetch_user_media(name, username) from generator state s, the
\* sub-commands in rest still to come: the mediaList pages (the own list for
\* username None, else the list ids of the named user), fetch_media of their
\* ids, then _save_media.
fetch_user_media(name, ids, s, rest) ==
    /\ \E ok \in BOOLEAN, fetched \in {fetch_media(ids, remote)} :
          IF ~ok
          THEN /\ died' = "Request failed"
               /\ lastOp' = Some(Op("fetch_user_media", None, None))
               /\ UNCHANGED <<media_sets, created>>
          ELSE \E sv \in {save_media(media_sets, name, fetched)} :
               /\ died' = sv.exc
               /\ media_sets' = sv.sets
               /\ created' = IF sv.exc = "" THEN remember(created, name, fetched)
                             ELSE created
               /\ lastOp' = Some(Op("fetch_user_media", None, Some(name)))
    /\ rng' = s
    /\ todo' = rest
    /\ UNCHANGED <<log, drew, remote>>
    /\ UNCHANGED <<clientVars, catalogVars>>

FetchUserMedia ==
    /\ Starts("fetch_user_media", "")
    /\ sent' = <<>>
    /\ \E name \in StoreNames, ids \in OtherLists \cup {ascending(remote)} :
          fetch_user_media(name, ids, rng, <<>>)

\* Commands.create_media_set(name, media): media[0] of an empty list raises
\* IndexError; else fetch_media, then _save_media.
create_media_set(name, arg) ==
    /\ IF arg = <<>>
       THEN /\ died' = "IndexError"
            /\ lastOp' = Some(Op("create_media_set", None, None))
            /\ UNCHANGED <<media_sets, created>>
       ELSE \E ok \in BOOLEAN, fetched \in {fetch_media(arg, remote)} :
          IF ~ok
          THEN /\ died' = "Request failed"
               /\ lastOp' = Some(Op("create_media_set", None, None))
               /\ UNCHANGED <<media_sets, created>>
          ELSE \E sv \in {save_media(media_sets, name, fetched)} :
               /\ died' = sv.exc
               /\ media_sets' = sv.sets
               /\ created' = IF sv.exc = "" THEN remember(created, name, fetched)
                             ELSE created
               /\ lastOp' = Some(Op("create_media_set", None, Some(name)))
    /\ UNCHANGED <<rng, log, drew, todo, remote>>
    /\ UNCHANGED <<clientVars, catalogVars>>

CreateMediaSet ==
    /\ Starts("create_media_set", "")
    /\ sent' = <<>>
    /\ \E name \in StoreNames, arg \in OtherLists : create_media_set(name, arg)

\* Commands.sample_set on the store.
SampleSetStore ==
    /\ Starts("sample_set", "")
    /\ sent' = <<>>
    /\ \E src \in StoreNames, tgt \in StoreNames, size \in 1..MaxSize,
          seed \in {None, Some(0)}, opts \in StoreOptions :
          sample_set(src, tgt, size, 0, seed, opts)

\* The ids of the media in list that carry a list entry (onlist) or a null
\* one, in the order of the list.
RECURSIVE ids_where(_, _)
ids_where(list, onlist) ==
    IF list = <<>> THEN <<>>
    ELSE (IF (Head(list).mediaListEntry # None) = onlist
          THEN <<Head(list).id>> ELSE <<>>) \o ids_where(Tail(list), onlist)

\* The mutations update_or_add_media sends for the re-fetched media: one
\* UpdateMediaListEntries for the entries on the list if there is any, then
\* one SaveMediaListEntry for each of the others.
mutations(fetched) ==
    (IF ids_where(fetched, TRUE) # <<>>
     THEN <<Mutation("update", ids_where(fetched, TRUE))>> ELSE <<>>)
    \o [k \in 1..Len(ids_where(fetched, FALSE)) |->
            Mutation("add", <<ids_where(fetched, FALSE)[k]>>)]

\* The ids named by the mutations of kind `kind` in the list plan.
named(plan, kind) ==
    UNION {{plan[k].ids[j] : j \in 1..Len(plan[k].ids)} :
           k \in {k \in 1..Len(plan) : plan[k].kind = kind}}

\* Commands.update_or_add_media(name) with the mutations hist already sent:
\* _load_media, _tmp_name, fetch_media, then the mutations up to the first
\* query that fails.
update_or_add_media(name, rest, hist) ==
    /\ \E l \in {load_media(media_sets, name)} :
          IF l.exc # ""
          THEN /\ died' = l.exc
               /\ sent' = hist
               /\ UNCHANGED <<rng, remote>>
          ELSE /\ rng' = tmp_name(rng).rng
               /\ \E ok \in BOOLEAN :
                  \E plan \in {mutations(fetch_media([k \in 1..Len(l.list) |-> l.list[k].id],
                                                     remote))} :
                  \E n \in 0..Len(plan) :
                     /\ ok \/ n = 0
                     /\ sent' = hist \o SubSeq(plan, 1, n)
                     /\ remote' = remote \cup named(SubSeq(plan, 1, n), "add")
                     /\ died' = IF ok /\ n = Len(plan) THEN "" ELSE "Request failed"
    /\ lastOp' = Some(Op("update_or_add_media", Some(name), None))
    /\ todo' = rest
    /\ UNCHANGED <<media_sets, created, log, drew>>
    /\ UNCHANGED <<clientVars, catalogVars>>

UpdateOrAddMedia ==
    \/ /\ Starts("update_or_add_media", "")
       /\ \E name \in StoreNames : update_or_add_media(name, <<>>, <<>>)
    \/ /\ Next_("update_or_add_media")
       /\ UNCHANGED <<nops, running>>
       /\ update_or_add_media(Head(todo).name, Tail(todo), sent)

\* delete_media that also drops the set from the store.
delete_media_unbinds(name, rest, hist) ==
    /\ \E l \in {load_media(media_sets, name)} :
          IF l.exc # "" THEN died' = l.exc /\ UNCHANGED media_sets
          ELSE /\ died' \in {"", "Request failed"}
               /\ media_sets' = [n \in DOMAIN media_sets \ {name} |-> media_sets[n]]
    /\ lastOp' = Some(Op("delete_media", Some(name), None))
    /\ todo' = rest
    /\ sent' = hist
    /\ UNCHANGED <<created, rng, log, drew, remote>>
    /\ UNCHANGED <<clientVars, catalogVars>>

\* m["mediaListEntry"]["id"] evaluates: the key is there and not null.
has_list_entry(m) == "mediaListEntry" \in DOMAIN m /\ m.mediaListEntry # None

\* What ends the loop of delete_media at the entry m: the subscripts on an
\* entry with no list entry, else the query.
delete_fails(m) ==
    IF "mediaListEntry" \notin DOMAIN m THEN "KeyError"
    ELSE IF m.mediaListEntry = None THEN "TypeError"
    ELSE "Request failed"

\* Commands.delete_media(name) with the mutations hist already sent:
\* _load_media, then one DeleteMediaListEntry for each entry in the order of
\* the list, up to the first entry without a list entry or the first query
\* that fails.
delete_media(name, rest, hist) ==
    /\ \E l \in {load_media(media_sets, name)} :
          IF l.exc # ""
          THEN /\ died' = l.exc
               /\ sent' = hist
               /\ UNCHANGED remote
          ELSE \E n \in 0..Len(l.list) :
               /\ \A k \in 1..n : has_list_entry(l.list[k])
               /\ n < Len(l.list) => died' = delete_fails(l.list[n + 1])
               /\ n = Len(l.list) => died' = ""
               /\ sent' = hist \o [k \in 1..n |-> Mutation("delete", <<l.list[k].id>>)]
               /\ remote' = remote \ {l.list[k].id : k \in 1..n}
    /\ lastOp' = Some(Op("delete_media", Some(name), None))
    /\ todo' = rest
    /\ UNCHANGED <<media_sets, created, rng, log, drew>>
    /\ UNCHANGED <<clientVars, catalogVars>>

DeleteMedia ==
    \/ /\ Starts("delete_media", "")
       /\ \E name \in StoreNames : delete_media(name, <<>>, <<>>)
    \/ /\ Next_("delete_media")
       /\ UNCHANGED <<nops, running>>
       /\ delete_media(Head(todo).name, Tail(todo), sent)

\* Commands.delete_list: _tmp_name, fetch_user_media of the own list under
\* that name, then delete_media of it.
delete_list(rest) ==
    \E t \in {tmp_name(rng)} :
        fetch_user_media(t.name, ascending(remote), t.rng,
                         <<[cmd |-> "delete_media", name |-> t.name]>> \o rest)

DeleteList ==
    /\ Starts("delete_list", "")
    /\ sent' = <<>>
    /\ delete_list(<<>>)

\* replace_list that looks the set up before it deletes anything.
ReplaceListLooksUpFirst ==
    /\ Idle
    /\ nops' = nops + 1
    /\ sent' = <<>>
    /\ \E name \in StoreNames :
          /\ running' = Some([cmd |-> "replace_list", name |-> name])
          /\ IF load_media(media_sets, name).exc # ""
             THEN /\ died' = load_media(media_sets, name).exc
                  /\ lastOp' = Some(Op("update_or_add_media", Some(name), None))
                  /\ UNCHANGED <<media_sets, created, rng, log, drew, todo, remote>>
                  /\ UNCHANGED <<clientVars, catalogVars>>
             ELSE delete_list(<<[cmd |-> "update_or_add_media", name |-> name]>>)

\* Commands.replace_list(name): delete_list, then update_or_add_media(name).
ReplaceList ==
    /\ Idle
    /\ nops' = nops + 1
    /\ sent' = <<>>
    /\ \E name \in StoreNames :
          /\ running' = Some([cmd |-> "replace_list", name |-> name])
          /\ delete_list(<<[cmd |-> "update_or_add_media", name |-> name]>>)

\* Commands.print(name): _load_media, then the output.
print_(name) ==
    /\ died' = load_media(media_sets, name).exc
    /\ lastOp' = Some(Op("print", Some(name), None))
    /\ UNCHANGED <<media_sets, created, rng, log, drew, todo, remote>>
    /\ UNCHANGED <<clientVars, catalogVars>>

PrintSet ==
    /\ Starts("print", "")
    /\ sent' = <<>>
    /\ \E name \in StoreNames : print_(name)

StoreNext ==
    \/ FetchUserMedia
    \/ CreateMediaSet
    \/ SampleSetStore
    \/ UpdateOrAddMedia
    \/ DeleteMedia
    \/ DeleteList
    \/ ReplaceList
    \/ PrintSet

----------------------------------------------------------------------------
(* API.retry_request *)

NoExc == [kind |-> "none", status |-> None, text |-> None, error |-> None]

\* fatal("Request failed:", [status, text]) of lines 259-265
RequestFailed(st, resp) ==
    [kind |-> "Request failed:", status |-> st, text |-> resp, error |-> None]

\* fatal("Error executing query:", first error message) of lines 244-247
QueryError(msg) ==
    [kind |-> "Error executing query:", status |-> None, text |-> None, error |-> Some(msg)]

Uncaught(kind) == [kind |-> kind, status |-> None, text |-> None, error |-> None]

ClientInit ==
    /\ rl = API__init__
    /\ now = Sec(1)
    /\ pc = "idle"
    /\ i = 0
    /\ count = 0
    /\ status = None
    /\ response = None
    /\ raised = NoExc
    /\ ncalls = 0
    /\ nsent = 0
    /\ transient = TRUE
    /\ posted = "none"
    /\ lastResp = None
    /\ lastLimit = None
    /\ grants = <<>>

\* The loop is over: fatal() with the locals status and response, which are
\* unbound when the loop body never ran.
exhausted(st, resp) ==
    IF st = None THEN Uncaught("UnboundLocalError") ELSE RequestFailed(st, resp)

\* A call of retry_request starts (do_query passes count = 10; the budget is a
\* parameter, so the model tries each budget up to MaxCount).
Execute ==
    /\ pc \in {"idle", "returned"}
    /\ ncalls < MaxCalls
    /\ \E c \in 0..MaxCount :
        /\ count' = c
        /\ IF c = 0
           THEN /\ pc' = "raised"
                /\ raised' = exhausted(None, None)
           ELSE /\ pc' = "limit"
                /\ raised' = raised
    /\ i' = 0
    /\ status' = None
    /\ response' = None
    /\ ncalls' = ncalls + 1
    /\ nsent' = 0
    /\ transient' = TRUE
    /\ posted' = "none"
    /\ UNCHANGED <<rl, now, lastResp, lastLimit, grants>>
    /\ UNCHANGED <<sampleVars, catalogVars, storeVars>>

\* Line 237: self.ratelimiter.limit()
Limit ==
    /\ pc = "limit"
    /\ now <= MaxTime
    /\ \E over \in Oversleeps :
        LET l == limit(rl, now, over) IN
        /\ rl' = l.rl
        /\ now' = l.now
        /\ lastLimit' = Some([retry_after |-> rl.x_ratelimit_retry_after,
                              reset |-> rl.x_ratelimit_reset,
                              remaining |-> rl.x_ratelimit_remaining,
                              called |-> l.called, slept |-> l.slept,
                              waited |-> window_limit(rl, now).now - now])
        /\ grants' = grants \o granted(rl, now)
        /\ IF l.exc # "none"
           THEN /\ pc' = "raised"
                /\ raised' = Uncaught(l.exc)
           ELSE /\ pc' = "post"
                /\ raised' = raised
    /\ posted' = "none"
    /\ UNCHANGED <<i, count, status, response, ncalls, nsent, transient, lastResp>>
    /\ UNCHANGED <<sampleVars, catalogVars, storeVars>>

\* Line 238 fails: requests.post raises and nothing catches it.
PostFails ==
    /\ pc = "post"
    /\ pc' = "raised"
    /\ raised' = Uncaught("ConnectionError")
    /\ nsent' = nsent + 1
    /\ transient' = FALSE
    /\ posted' = "failed"
    /\ lastLimit' = None
    /\ UNCHANGED <<rl, now, i, count, status, response, ncalls, lastResp, grants>>
    /\ UNCHANGED <<sampleVars, catalogVars, storeVars>>

\* handle without the 'errors' test of line 243: a 200 always returns.
handle_no_errors_test(st, b, n, c) ==
    IF ~b.json THEN [pc |-> "raised", raised |-> Uncaught("JSONDecodeError")]
    ELSE IF st = 200
    THEN [pc |-> "returned", raised |-> NoExc]
    ELSE IF n + 1 < c
    THEN [pc |-> "limit", raised |-> NoExc]
    ELSE [pc |-> "raised", raised |-> exhausted(Some(st), Some(b))]

\* Lines 240-258 on a response with status st and body b in round n of c, and
\* what follows the loop when this was its last round (lines 259-265).
handle(st, b, n, c) ==
    IF ~b.json THEN [pc |-> "raised", raised |-> Uncaught("JSONDecodeError")]
    ELSE IF st = 200
    THEN IF b.has_errors
         THEN IF b.errors = <<>>
              THEN [pc |-> "raised", raised |-> Uncaught("IndexError")]
              ELSE [pc |-> "raised", raised |-> QueryError(b.errors[1])]
         ELSE [pc |-> "returned", raised |-> NoExc]
    ELSE IF n + 1 < c
    THEN [pc |-> "limit", raised |-> NoExc]
    ELSE [pc |-> "raised", raised |-> exhausted(Some(st), Some(b))]

\* Lines 238-258: the request is posted and a response comes back.
Post ==
    /\ pc = "post"
    /\ \E st \in Statuses, h \in Headers, b \in Bodies, lat \in Latencies :
        LET o == handle(st, b, i, count) IN
        /\ now' = now + lat
        /\ rl' = x_update(rl, h)
        /\ lastResp' = Some([at |-> now + lat, status |-> st, body |-> b,
                             retry_after |-> h.retry_after,
                             reset |-> h.reset, remaining |-> h.remaining])
        /\ response' = Some(b)
        /\ status' = IF b.json THEN Some(st) ELSE status
        /\ pc' = o.pc
        /\ raised' = IF o.pc = "raised" THEN o.raised ELSE raised
        /\ i' = IF o.pc = "limit" THEN i + 1 ELSE i
        /\ transient' = (transient /\ st \notin {200, 429})
    /\ nsent' = nsent + 1
    /\ posted' = "response"
    /\ lastLimit' = None
    /\ UNCHANGED <<count, ncalls, grants>>
    /\ UNCHANGED <<sampleVars, catalogVars, storeVars>>

ClientNext == Execute \/ Limit \/ PostFails \/ Post

----------------------------------------------------------------------------
(* The RateLimiter on its own: the class takes its window, count and cooldown
   as constructor arguments, and its two entry points are limit() and
   x_update(response).  The limiter is driven directly as retry_request
   drives it, limit() before a request and x_update on its response, with
   every configuration of a small set. *)

Counts == {None, Some(1), Some(2)}

Cooldowns == {None, Some(1)}

Limiters == {RateLimiter__init__(1, c, k) : c \in Counts, k \in Cooldowns}

LimiterInit ==
    /\ rl \in Limiters
    /\ now = Sec(1)
    /\ pc = "limiter"
    /\ i = 0
    /\ count = 0
    /\ status = None
    /\ response = None
    /\ raised = NoExc
    /\ ncalls = 0
    /\ nsent = 0
    /\ transient = TRUE
    /\ posted = "none"
    /\ lastResp = None
    /\ lastLimit = None
    /\ grants = <<>>

\* A caller runs limit() (lines 124-153) to the end.
CallLimit ==
    /\ pc = "limiter"
    /\ now <= MaxTime
    /\ Len(grants) < MaxGrants
    /\ \E over \in Oversleeps :
        LET l == limit(rl, now, over) IN
        /\ rl' = l.rl
        /\ now' = l.now
        /\ lastLimit' = Some([retry_after |-> rl.x_ratelimit_retry_after,
                              reset |-> rl.x_ratelimit_reset,
                              remaining |-> rl.x_ratelimit_remaining,
                              called |-> l.called, slept |-> l.slept,
                              waited |-> window_limit(rl, now).now - now])
        /\ grants' = grants \o granted(rl, now)
        /\ IF l.exc # "none"
           THEN /\ pc' = "raised"
                /\ raised' = Uncaught(l.exc)
           ELSE /\ pc' = "granted"
                /\ raised' = raised
    /\ UNCHANGED <<i, count, status, response, ncalls, nsent, transient,
                   posted, lastResp>>
    /\ UNCHANGED <<sampleVars, catalogVars, storeVars>>

\* The caller hands the response to x_update (lines 86-107) some time later.
CallXUpdate ==
    /\ pc = "granted"
    /\ \E h \in Headers, lat \in Latencies :
        /\ now' = now + lat
        /\ rl' = x_update(rl, h)
    /\ pc' = "limiter"
    /\ lastLimit' = None
    /\ UNCHANGED <<i, count, status, response, raised, ncalls, nsent,
                   transient, posted, lastResp, grants>>
    /\ UNCHANGED <<sampleVars, catalogVars, storeVars>>

LimiterNext == CallLimit \/ CallXUpdate

\* The process after Commands.__init__: the store loaded, the client idle.
Init == ClientInit /\ SampleInit

\* The client's runs read neither the generator nor the catalog: the process
\* started without data stands for all.
InitClient ==
    /\ ClientInit
    /\ ConstructedNoData
    /\ rng = 0
    /\ log = <<>>
    /\ drew = FALSE

\* The query client alone.
SpecClient == InitClient /\ [][ClientNext]_vars

\* The RateLimiter driven directly, under every configuration of Limiters.
InitLimiter ==
    /\ LimiterInit
    /\ ConstructedNoData
    /\ rng = 0
    /\ log = <<>>
    /\ drew = FALSE

SpecLimiter == InitLimiter /\ [][LimiterNext]_vars

\* The sampling commands alone, the client idle.
SpecSample == Init /\ [][SampleNext]_vars

\* The process before Commands.__init__, over every snapshot file.
InitCatalog == ClientInit /\ CatalogInit

\* Start-up and the filter predicates.
SpecCatalog == InitCatalog /\ [][CatalogNext]_vars

\* The process after Commands.__init__ on the least snapshot that loads.
InitStore == Init /\ rng = 0

\* The commands on the store, the client idle.
SpecStore == InitStore /\ [][StoreNext]_vars

----------------------------------------------------------------------------
(* The query client's claims *)

\* The response lastResp has just been handled by the running call.
Handled == posted = "response" /\ lastResp # None

\* A step that posts a request; it is posted at tick `now`.
Sends == nsent' = nsent + 1

ServerStateUnknown ==
    /\ rl.x_ratelimit_limit = None
    /\ rl.x_ratelimit_remaining = None
    /\ rl.x_ratelimit_reset = None
    /\ rl.x_ratelimit_retry_after = None

\* C1: a call with budget count >= 1 whose every attempt was answered with a
\* status other than 200 and 429 posts exactly count requests and then raises
\* "Request failed:" with the last status and body.
C1_AttemptExhaustion ==
    /\ count >= 1 => nsent <= count
    /\ (pc = "raised" /\ count >= 1 /\ transient) =>
           /\ nsent = count
           /\ lastResp # None
           /\ raised = RequestFailed(Some(lastResp[1].status), Some(lastResp[1].body))

\* C2 as stated: a 200 whose body carries an errors array raises "Error
\* executing query:" with the first message and ends the call; a 200 without
\* one returns.
C2_ErrorArrayFatal ==
    (Handled /\ lastResp[1].status = 200 /\ lastResp[1].body.json) =>
        IF lastResp[1].body.has_errors
        THEN /\ pc = "raised"
             /\ Len(lastResp[1].body.errors) >= 1
             /\ raised = QueryError(lastResp[1].body.errors[1])
        ELSE pc = "returned" /\ raised = NoExc

\* C2 amended: a 200 whose parsed body carries a non-empty errors array raises
\* "Error executing query:" with the first message, whatever budget is left,
\* and nothing runs after it; a 200 whose parsed body has no errors key returns.
C2_NonEmptyErrorArrayFatal ==
    /\ (Handled /\ lastResp[1].status = 200 /\ lastResp[1].body.json) =>
          /\ (lastResp[1].body.has_errors /\ lastResp[1].body.errors # <<>>) =>
                /\ pc = "raised"
                /\ raised = QueryError(lastResp[1].body.errors[1])
          /\ ~lastResp[1].body.has_errors => (pc = "returned" /\ raised = NoExc)
    /\ pc = "raised" => ~ENABLED ClientNext

C2_Witness ==
    /\ Handled
    /\ lastResp[1].status = 200
    /\ lastResp[1].body.errors = <<"m1", "m2">>
    /\ raised = QueryError("m1")
    /\ nsent < count

\* C3: a response with a status other than 200 and 429 is counted as one
\* attempt and, while attempts remain, the loop goes on to the next attempt,
\* whatever the body.
C3_OtherStatusRetried ==
    (Handled /\ lastResp[1].status \notin {200, 429} /\ nsent < count) =>
        (pc = "limit" /\ i = nsent /\ raised = NoExc)

\* C4: a post that fails at the transport level is one unsuccessful attempt:
\* the loop goes on while attempts remain and raises "Request failed:" after.
C4_ConnectionFailureRetried ==
    posted = "failed" =>
        IF nsent < count
        THEN pc = "limit" /\ raised = NoExc
        ELSE raised.kind = "Request failed:"

\* C5: a request posted after a response that carried Retry-After = R is
\* posted no earlier than R seconds after that response was received, in the
\* same call or in a later one.
C5_RetryAfterHonoured ==
    [][(Sends /\ lastResp # None /\ lastResp[1].retry_after # None) =>
          now >= lastResp[1].at + Sec(lastResp[1].retry_after[1])]_vars

\* limit() has waited out a Retry-After of 2 s at the head of a later call.
C5_Witness ==
    /\ pc = "post"
    /\ ncalls = 2
    /\ nsent = 0
    /\ lastResp # None
    /\ lastResp[1].retry_after = Some(2)
    /\ lastLimit[1].called
    /\ now >= lastResp[1].at + Sec(2)

\* C6: a request posted after a response that reported remaining = 0 and
\* reset = T without a Retry-After is posted no earlier than T, whether T was
\* ahead or behind when limit() was entered.
C6_ResetHonoured ==
    [][(/\ Sends
        /\ lastResp # None
        /\ lastResp[1].remaining = Some(0)
        /\ lastResp[1].reset # None
        /\ lastResp[1].retry_after = None) =>
          now >= Sec(lastResp[1].reset[1])]_vars

\* limit() was entered before the reset time and has waited for it.
C6_Witness ==
    /\ pc = "post"
    /\ lastResp # None
    /\ lastResp[1].remaining = Some(0)
    /\ lastResp[1].reset = Some(3)
    /\ lastResp[1].retry_after = None
    /\ lastResp[1].at < Sec(3)
    /\ lastLimit[1].called
    /\ now >= Sec(3)

\* C7 as stated: limit() entered with a known, positive remaining quota does
\* not block in the server-directed layer.
C7_PositiveQuotaNoWait ==
    (lastLimit # None /\ lastLimit[1].remaining # None /\ lastLimit[1].remaining[1] >= 1) =>
        (~lastLimit[1].called /\ lastLimit[1].slept = 0)

\* C7 amended: limit() entered with a known, positive remaining quota and with
\* Retry-After and reset both unknown returns without calling sleep.
C7_PositiveQuotaNoSignalNoWait ==
    (/\ lastLimit # None
     /\ lastLimit[1].remaining # None
     /\ lastLimit[1].remaining[1] >= 1
     /\ lastLimit[1].retry_after = None
     /\ lastLimit[1].reset = None) =>
        (~lastLimit[1].called /\ lastLimit[1].slept = 0 /\ pc = "post")

C7_Witness ==
    /\ pc = "post"
    /\ lastLimit # None
    /\ lastLimit[1].remaining = Some(1)
    /\ lastLimit[1].retry_after = None
    /\ lastLimit[1].reset = None
    /\ ~lastLimit[1].called

\* C8: in the client API builds, limit() entered with remaining = 0 and with
\* Retry-After and reset unknown blocks for the cooldown, clears the server
\* state and returns, so that the attempt is posted.
C8_CooldownOnExhaustedQuota ==
    (/\ lastLimit # None
     /\ lastLimit[1].remaining = Some(0)
     /\ lastLimit[1].retry_after = None
     /\ lastLimit[1].reset = None) =>
        (pc = "post" /\ raised = NoExc /\ lastLimit[1].called /\ ServerStateUnknown)

----------------------------------------------------------------------------
(* The sampling engine's claims *)

SameArguments(a, b) ==
    /\ a.data = b.data
    /\ a.opts = b.opts
    /\ a.size = b.size
    /\ a.seed = b.seed
    /\ a.offset = b.offset

\* C9: two generate_sample calls with the same seed, source, filter, size and
\* offset return the same sequence, whatever drew from the generator between.
C9_SampleDeterministic ==
    \A a \in 1..Len(log), b \in 1..Len(log) :
        (log[a].seed # None /\ SameArguments(log[a], log[b])) =>
            log[a].result = log[b].result

\* The same seeded call made twice, _tmp_name drawing between the two.
C9_Witness ==
    /\ Len(log) = 2
    /\ log[1].seed # None
    /\ SameArguments(log[1], log[2])
    /\ ~log[1].drew
    /\ log[2].drew
    /\ Len(log[1].result) = 2
    /\ log[1].result = log[2].result

\* The matching entries of data.
Matches(data, opts) == {k \in 1..Len(data) : filter_(media, opts, data[k]) = "True"}

InCommon(x, y) == {x[k] : k \in 1..Len(x)} \cap {y[k] : k \in 1..Len(y)}

\* The seed-determined ordering of the matching entries.
Walk(data, opts, seed) ==
    SelectSeq(random_sample(data, seed_state(seed)).result, LAMBDA v : filter_(media, opts, v) = "True")

\* C10: with at least k + 2 * size matches, the results for offset k and for
\* offset k + size share no entry and are the stretches k+1..k+size and
\* k+size+1..k+2*size of the seed's ordering of the matches.
C10_OffsetsWalkDisjoint ==
    \A a \in 1..Len(log), b \in 1..Len(log) :
        (/\ log[a].seed # None
         /\ log[a].data = log[b].data
         /\ log[a].opts = log[b].opts
         /\ log[a].size = log[b].size
         /\ log[a].seed = log[b].seed
         /\ log[b].offset = log[a].offset + log[a].size
         /\ Cardinality(Matches(log[a].data, log[a].opts))
                >= log[a].offset + 2 * log[a].size) =>
            LET w == Walk(log[a].data, log[a].opts, log[a].seed[1])
                k == log[a].offset
                n == log[a].size
            IN /\ InCommon(log[a].result, log[b].result) = {}
               /\ log[a].result = SubSeq(w, k + 1, k + n)
               /\ log[b].result = SubSeq(w, k + n + 1, k + 2 * n)

Min(a, b) == IF a <= b THEN a ELSE b

Max(a, b) == IF a >= b THEN a ELSE b

\* C11: the sample has min(size, number of matches left after the first
\* offset matches) entries and no call raises, for every source, predicate,
\* size >= 0 and offset >= 0.
C11_ResultLength ==
    \A a \in 1..Len(log) :
        /\ log[a].exc = ""
        /\ Len(log[a].result) =
               Min(log[a].size,
                   Max(0, Cardinality(Matches(log[a].data, log[a].opts)) - log[a].offset))

\* The ids of the entries of a dense list that match the predicate.
MatchingIds(data, opts) == {data[k][1].id : k \in Matches(data, opts)}

\* Identifier x comes before identifier y in the walk w.
Precedes(w, x, y) ==
    \E k \in 1..Len(w), l \in 1..Len(w) : k < l /\ w[k][1].id = x /\ w[l][1].id = y

\* The identifiers in ids come in the same order in the walks wa and wb.
SameOrder(wa, wb, ids) ==
    \A x \in ids, y \in ids : Precedes(wa, x, y) <=> Precedes(wb, x, y)

\* C19: for two sample_set calls with the same seed and predicate over any
\* two sources, two identifiers that match in both sources come in the same
\* order in the seed's walk over the one and over the other.
C19_CrossSourceOrder ==
    \A a \in 1..Len(log), b \in 1..Len(log) :
        (/\ a < b
         /\ log[a].seed # None
         /\ log[a].seed = log[b].seed
         /\ log[a].opts = log[b].opts) =>
            SameOrder(Walk(log[a].data, log[a].opts, log[a].seed[1]),
                      Walk(log[b].data, log[b].opts, log[b].seed[1]),
                      MatchingIds(log[a].data, log[a].opts)
                          \cap MatchingIds(log[b].data, log[b].opts))

\* The same seed used on ALL and then on the two-entry set sampled from it,
\* both entries matching in both.
C19_Witness ==
    /\ Len(log) = 2
    /\ log[1].seed # None
    /\ log[1].seed = log[2].seed
    /\ log[1].opts = log[2].opts
    /\ log[1].source = "ALL"
    /\ log[2].source = "T1"
    /\ log[1].data # log[2].data
    /\ Cardinality(MatchingIds(log[1].data, log[1].opts)
                       \cap MatchingIds(log[2].data, log[2].opts)) = 2

----------------------------------------------------------------------------
(* The filter predicate's and the loader's claims *)

\* The options present in an option set.
Present(opts) == {o \in DOMAIN opts : opts[o] # None}

\* The predicate was built with option o alone and called on an entry, not a hole.
ProbedOnly(o) ==
    /\ probe # None
    /\ Present(probe[1].opts) = {o}
    /\ probe[1].m # None

\* The entry has a season, one of the four names.
HasSeason(m) == m.season # None /\ m.season[1] \in Seasons

\* C12: with only min_season = S the predicate is true iff the entry's season
\* is S or later in WINTER < SPRING < SUMMER < FALL, with only max_season = S
\* iff it is S or earlier; an entry without a season field gives false.
C12_SeasonBoundsOrdinal ==
    /\ (ProbedOnly("min_season") /\ HasSeason(probe[1].m[1])) =>
           probe[1].out = truth(season_order[probe[1].m[1].season[1]]
                                    >= season_order[probe[1].opts.min_season[1]])
    /\ (ProbedOnly("max_season") /\ HasSeason(probe[1].m[1])) =>
           probe[1].out = truth(season_order[probe[1].m[1].season[1]]
                                    <= season_order[probe[1].opts.max_season[1]])
    /\ ((ProbedOnly("min_season") \/ ProbedOnly("max_season"))
            /\ probe[1].m[1].season = None) =>
           probe[1].out = "False"

\* C13: with only min_year = B the predicate is true iff year >= B, with only
\* max_year = B iff year <= B, with only min_popularity = B iff
\* popularity >= B, with only max_popularity = B iff popularity <= B.
C13_InclusiveBounds ==
    /\ (ProbedOnly("min_year") /\ probe[1].m[1].seasonYear # None) =>
           probe[1].out = truth(probe[1].m[1].seasonYear[1] >= probe[1].opts.min_year[1])
    /\ (ProbedOnly("max_year") /\ probe[1].m[1].seasonYear # None) =>
           probe[1].out = truth(probe[1].m[1].seasonYear[1] <= probe[1].opts.max_year[1])
    /\ ProbedOnly("min_popularity") =>
           probe[1].out = truth(probe[1].m[1].popularity >= probe[1].opts.min_popularity[1])
    /\ ProbedOnly("max_popularity") =>
           probe[1].out = truth(probe[1].m[1].popularity <= probe[1].opts.max_popularity[1])

\* The entry's id is in the loaded catalog.
InCatalog(m) == media # None /\ m.id \in DOMAIN media[1]

\* The number of snapshot entries that come before the entry with this id in
\* the order of increasing popularity.
LessPopular(id) ==
    rank([p \in 1..Len(file[1]) |-> file[1][p].popularity], last_with_id(file[1], id))

\* C14: with only min_popularity_percent = X the predicate matches exactly
\* the catalog entries among the X% most popular of the whole catalog (at
\* most X% of the catalog is more popular), with only
\* max_popularity_percent = X those among the X% least popular (at most X%
\* of the catalog is less popular).
C14_PercentSelectsTop ==
    /\ (ProbedOnly("min_popularity_percent") /\ InCatalog(probe[1].m[1])) =>
           probe[1].out =
               truth(100 * (Len(file[1]) - 1 - LessPopular(probe[1].m[1].id))
                         <= probe[1].opts.min_popularity_percent[1] * Len(file[1]))
    /\ (ProbedOnly("max_popularity_percent") /\ InCatalog(probe[1].m[1])) =>
           probe[1].out =
               truth(100 * LessPopular(probe[1].m[1].id)
                         <= probe[1].opts.max_popularity_percent[1] * Len(file[1]))

\* C15: a predicate with a percentile bound gives false, and raises nothing,
\* for an entry whose id is not in the loaded catalog or when no catalog is
\* loaded.
C15_OutsideCatalogNoMatch ==
    ((ProbedOnly("min_popularity_percent") \/ ProbedOnly("max_popularity_percent"))
        /\ ~InCatalog(probe[1].m[1])) =>
            probe[1].out = "False"

\* C16: once start-up has run on a snapshot of n >= 1 entries, the store binds
\* ALL to those n entries in snapshot order, each with its percentile.
C16_AllHoldsSnapshot ==
    (started /\ file # None /\ Len(file[1]) >= 1) =>
        /\ died = ""
        /\ "ALL" \in DOMAIN media_sets
        /\ Len(media_sets["ALL"]) = Len(file[1])
        /\ \A p \in 1..Len(file[1]) :
               media_sets["ALL"][p] =
                   [file[1][p] EXCEPT !.popularity_percent =
                       Some(<<100 * LessPopular(file[1][p].id), Len(file[1])>>)]

\* C20: on an entry that is not a hole the predicate is true iff the
\* predicate of each present option alone is true (so it is true when no
\* option is present); on a hole it is false under every option set.
C20_PredicateConjunction ==
    probe # None =>
        IF probe[1].m = None THEN probe[1].out = "False"
        ELSE (probe[1].out = "True") <=>
                 \A o \in Present(probe[1].opts) :
                     filter_(media, Only(o, probe[1].opts[o][1]), probe[1].m) = "True"

\* An entry passing every one of four present options but one.
C20_Witness ==
    /\ probe # None
    /\ probe[1].m # None
    /\ Cardinality(Present(probe[1].opts)) = 4
    /\ Cardinality({o \in Present(probe[1].opts) :
           filter_(media, Only(o, probe[1].opts[o][1]), probe[1].m) = "False"}) = 1
    /\ Cardinality({o \in Present(probe[1].opts) :
           filter_(media, Only(o, probe[1].opts[o][1]), probe[1].m) = "True"}) = 3
    /\ probe[1].out = "False"

----------------------------------------------------------------------------
(* The store's claims *)

DuplicateName == "Media set already exists:"

MissingName == "No media set with name"

\* C17: a command step that calls _save_media with a name already bound
\* raises the duplicate-name fatal condition and leaves the store as it was;
\* one that calls _load_media with a name not bound raises the missing-name
\* fatal condition and leaves the store as it was; no step that ends with an
\* exception changes the store.
C17_SetNameUniqueness ==
    [][/\ (lastOp'[1].save # None /\ lastOp'[1].save[1] \in DOMAIN media_sets) =>
              (died' = DuplicateName /\ media_sets' = media_sets)
       /\ (lastOp'[1].load # None /\ lastOp'[1].load[1] \notin DOMAIN media_sets) =>
              (died' = MissingName /\ media_sets' = media_sets)
       /\ died' # "" => media_sets' = media_sets]_vars

\* sample_set with target = source has raised the duplicate-name condition
\* and the store holds what it held.
C17_Witness ==
    /\ lastOp # None
    /\ lastOp[1].cmd = "sample_set"
    /\ lastOp[1].save = lastOp[1].load
    /\ lastOp[1].save = Some("T1")
    /\ died = DuplicateName
    /\ media_sets = created
    /\ nops = 2

\* C18: every name that was ever bound is bound, to the list it was created
\* with.
C18_SetsImmutable ==
    \A n \in DOMAIN created :
        n \in DOMAIN media_sets /\ media_sets[n] = created[n]

\* replace_list has run to its end on a set fetched before: the fetched set
\* and the temporary set of delete_list are bound to what they were created
\* with.
C18_Witness ==
    /\ nops = 2
    /\ todo = <<>>
    /\ died = ""
    /\ lastOp # None
    /\ lastOp[1].cmd = "update_or_add_media"
    /\ lastOp[1].load = Some("T1")
    /\ Cardinality(DOMAIN created) = 3
    /\ Len(created["T1"]) = 2
    /\ C18_SetsImmutable

----------------------------------------------------------------------------
(* The rate limiter's claims *)

\* limit() has just returned; lastLimit holds the state it was entered in.
Returned == pc \in {"granted", "post"} /\ lastLimit # None

\* The state limit() was entered in carried a signal of the server that makes
\* it wait: a Retry-After, a reset time, or a remaining quota below 1.
SignalAtEntry ==
    \/ lastLimit[1].retry_after # None
    \/ lastLimit[1].reset # None
    \/ (lastLimit[1].remaining # None /\ lastLimit[1].remaining[1] < 1)

\* C21: when limit() returns from a call it entered with a known Retry-After,
\* a known reset time or a remaining quota of zero, the limit, remaining,
\* reset and retry-after fields are all unknown; and a call entered with no
\* such signal does not sleep for the server, so an advertised value makes
\* at most one call wait.
C21_ServerStateCleared ==
    /\ (Returned /\ SignalAtEntry) => ServerStateUnknown
    /\ (Returned /\ ~SignalAtEntry) =>
          (~lastLimit[1].called /\ lastLimit[1].slept = 0)

\* limit() on a limiter with a cooldown of 1 s was entered with a remaining
\* quota of zero and nothing else, has slept the cooldown and returned.
C21_Witness ==
    /\ Returned
    /\ rl.cooldown = Some(1)
    /\ lastLimit[1].remaining = Some(0)
    /\ lastLimit[1].retry_after = None
    /\ lastLimit[1].reset = None
    /\ lastLimit[1].slept >= Sec(1)
    /\ ServerStateUnknown

\* The recorded timestamps, the k-th included, inside the window that ends at
\* the k-th.
InWindow(k) == {j \in 1..k : grants[j] > grants[k] - Sec(rl.window)}

\* C22: with a count c configured, each timestamp the window layer records
\* has at most c recorded timestamps, itself included, inside the window that
\* ends at it, and the list the limiter keeps never holds more than c; with
\* no count configured the layer records no timestamp and never blocks.
C22_WindowCap ==
    IF rl.count # None
    THEN /\ \A k \in 1..Len(grants) : Cardinality(InWindow(k)) <= rl.count[1]
         /\ Len(rl.timestamps) <= rl.count[1]
    ELSE /\ grants = <<>>
         /\ rl.timestamps = <<>>
         /\ Returned => lastLimit[1].waited = 0

\* A limiter with count 2 has granted a third slot after blocking in the
\* window layer.
C22_Witness ==
    /\ Returned
    /\ rl.count = Some(2)
    /\ Len(grants) = 3
    /\ lastLimit[1].waited > 0
    /\ grants[3] >= grants[1] + Sec(rl.window)

\* C25: whenever retry_request is about to post a request, the limiter's
\* retry-after and reset time are unknown and its remaining quota is unknown
\* or at least 1.
C25_SendTimeState ==
    pc = "post" =>
        /\ rl.x_ratelimit_retry_after = None
        /\ rl.x_ratelimit_reset = None
        /\ (rl.x_ratelimit_remaining = None \/ rl.x_ratelimit_remaining[1] >= 1)

\* A second call on the client is about to post after limit() waited out the
\* Retry-After that a response to the first call had carried.
C25_Witness ==
    /\ pc = "post"
    /\ ncalls = 2
    /\ lastLimit # None
    /\ lastLimit[1].retry_after # None
    /\ lastLimit[1].slept > 0
    /\ C25_SendTimeState

----------------------------------------------------------------------------
(* The sample's soundness *)

\* The list v holds no value twice.
NoRepeat(v) == \A k, l \in 1..Len(v) : v[k] = v[l] => k = l

\* The result of the logged call a is sound: every element is an entry of
\* the source set, not a hole, the predicate holds of it, and none occurs
\* twice.
Sound(a) ==
    /\ \A k \in 1..Len(a.result) :
          /\ a.result[k] # None
          /\ \E j \in 1..Len(media_sets[a.source]) :
                media_sets[a.source][j] = a.result[k][1]
          /\ filter_(media, a.opts, a.result[k]) = "True"
    /\ NoRepeat(a.result)

\* C24: the result of every sample_set call that returns is sound, and with
\* size 2 and at least two matches beyond the offset it has exactly 2
\* entries.  (Every logged call is the last one of some reachable state.)
C24_SampleSound ==
    log # <<>> =>
        LET a == log[Len(log)] IN
        a.exc = "" =>
            /\ Sound(a)
            /\ (a.size = 2 /\ Cardinality(Matches(a.data, a.opts)) >= a.offset + 2) =>
                  Len(a.result) = 2

\* Two entries were drawn from the catalog with min_popularity = 30, which
\* leaves some of its entries out.
C24_Witness ==
    /\ log # <<>>
    /\ log[Len(log)].source = "ALL"
    /\ log[Len(log)].opts.min_popularity = Some(30)
    /\ log[Len(log)].size = 2
    /\ Len(log[Len(log)].result) = 2
    /\ Cardinality(Matches(log[Len(log)].data, log[Len(log)].opts)) < Len(media_sets["ALL"])
    /\ Sound(log[Len(log)])

\* C23: a sample_set call with no filter option, offset 0 and a size of at
\* least the number of entries of the source set, that returns, returns
\* every entry of the source set exactly once.  (Every logged call is the
\* last one of some reachable state.)
C23_EverySourceEntryInIndexSpace ==
    log # <<>> =>
        LET a == log[Len(log)]
            source == media_sets[a.source]
        IN  (a.exc = "" /\ a.opts = NoFilterOptions /\ a.offset = 0
                /\ a.size >= Len(source)) =>
               \A j \in 1..Len(source) :
                  Cardinality({k \in 1..Len(a.result) : a.result[k][1] = source[j]}) = 1

----------------------------------------------------------------------------
(* replace_list *)

\* The command under way, or the last one run, is replace_list.
Replacing == running # None /\ running[1].cmd = "replace_list"

\* replace_list has reached update_or_add_media, which has looked its set up.
LookedUp == Replacing /\ lastOp # None /\ lastOp[1].cmd = "update_or_add_media"

\* C26: in a replace_list call every deletion is sent before every add or
\* update; once the named set has been looked up the list holds nothing but
\* what the call has added since; and when the name is not in the store the
\* call ends with the missing-name condition, the list empty and no add or
\* update sent.
C26_ReplaceListOrdering ==
    /\ Replacing =>
          \A a, b \in 1..Len(sent) :
             (sent[a].kind = "delete" /\ sent[b].kind # "delete") => a < b
    /\ LookedUp =>
          remote = named(sent, "add")
    /\ (LookedUp /\ running[1].name \notin DOMAIN media_sets) =>
          /\ died = MissingName
          /\ remote = {}
          /\ \A k \in 1..Len(sent) : sent[k].kind = "delete"

\* replace_list was given a name that is not in the store: the two entries
\* of the list were deleted, then the call ended with the missing-name
\* condition.
C26_Witness ==
    /\ LookedUp
    /\ running[1].name = "T1"
    /\ "T1" \notin DOMAIN media_sets
    /\ died = MissingName
    /\ Len(sent) = 2
    /\ remote = {}

====
